---- MODULE Spec2Model ----
(***************************************************************************)
(* A model of goSAM's SAM reader (sam.go, the revision with validation and *)
(* duplicate checking): ReadSAMFile and the parsers and validators it      *)
(* calls.  Go strings are sequences of one-character strings, Go integers  *)
(* are kept at their width as 16-bit limbs, and a run-time panic (index    *)
(* or slice out of range) is an outcome of its own.                        *)
(***************************************************************************)
EXTENDS Integers, Sequences, FiniteSets

VARIABLES pc, intSize, header, rsdl, rgl, progl, al,
          rsdNames, rgIDs, progIDs, ret, consumed, probe, result

vars == <<pc, intSize, header, rsdl, rgl, progl, al,
          rsdNames, rgIDs, progIDs, ret, consumed, probe, result>>

\* ------------------------------------------------------------------ bounds

\* Lines one scan reads before the reader reports end of input.
MaxLines == 3

\* KEY:VALUE fields after the tag of a metadata line handed to one parser.
MaxFields == 2

\* --------------------------------------------------------------- characters

\* The printable characters in byte order; byte 96 is spelled out, and no
\* line of the model holds it.
Printable ==
  << "!", "\"", "#", "$", "%", "&", "'", "(", ")", "*", "+", ",", "-", ".", "/",
     "0", "1", "2", "3", "4", "5", "6", "7", "8", "9", ":", ";", "<", "=", ">",
     "?", "@", "A", "B", "C", "D", "E", "F", "G", "H", "I", "J", "K", "L", "M",
     "N", "O", "P", "Q", "R", "S", "T", "U", "V", "W", "X", "Y", "Z", "[", "\\",
     "]", "^", "_", "backquote", "a", "b", "c", "d", "e", "f", "g", "h", "i", "j", "k",
     "l", "m", "n", "o", "p", "q", "r", "s", "t", "u", "v", "w", "x", "y", "z",
     "{", "|", "}", "~" >>

\* The byte value of a character: tab is 9, space 32, '!'..'~' are 33..126.
Ord(c) ==
  IF c = "\t" THEN 9
  ELSE IF c = " " THEN 32
  ELSE 32 + (CHOOSE i \in 1..Len(Printable) : Printable[i] = c)

Ords(S) == {Ord(c) : c \in S}

Digits == <<"0", "1", "2", "3", "4", "5", "6", "7", "8", "9">>

IsDigit(c) == \E i \in 1..10 : Digits[i] = c

DigitVal(c) == (CHOOSE i \in 1..10 : Digits[i] = c) - 1

\* ------------------------------------------------------------ strings.Split

\* Index of the first sep in s, 0 when there is none.
IndexOf(s, sep) ==
  IF \E i \in 1..Len(s) : s[i] = sep
  THEN CHOOSE i \in 1..Len(s) : s[i] = sep /\ \A j \in 1..(i - 1) : s[j] /= sep
  ELSE 0

RECURSIVE Split(_, _)
\* strings.Split(s, sep) for a one-character sep: every piece between
\* separators, so a string without sep (the empty one too) gives one piece.
Split(s, sep) ==
  LET i == IndexOf(s, sep)
  IN IF i = 0 THEN <<s>>
     ELSE <<SubSeq(s, 1, i - 1)>> \o Split(SubSeq(s, i + 1, Len(s)), sep)

\* ------------------------------------------------------------ Go integers

Base == 2^16

ZeroMag == <<0, 0, 0, 0>>

RECURSIVE MulAdd(_, _)
\* mag * 10 + carry on little-endian 16-bit limbs; the carry out of the top
\* limb is kept as a fifth element.
MulAdd(mag, carry) ==
  IF mag = <<>> THEN <<carry>>
  ELSE LET t == Head(mag) * 10 + carry
       IN <<t % Base>> \o MulAdd(Tail(mag), t \div Base)

RECURSIVE ParseMag(_, _, _)
\* The magnitude of a digit string, with a sticky flag once it leaves 64 bits.
ParseMag(ds, mag, over) ==
  IF ds = <<>> THEN [mag |-> mag, over |-> over]
  ELSE LET r == MulAdd(mag, DigitVal(Head(ds)))
       IN ParseMag(Tail(ds), SubSeq(r, 1, 4), over \/ r[5] /= 0)

\* mag > 2^(bits-1) - 1, the largest int of that size
AboveMaxInt(mag, bits) ==
  IF bits = 64 THEN mag[4] >= 2^15
  ELSE mag[4] /= 0 \/ mag[3] /= 0 \/ mag[2] >= 2^15

\* mag > 2^(bits-1), the magnitude of the smallest int of that size
AboveMinInt(mag, bits) ==
  IF bits = 64
  THEN mag[4] > 2^15 \/ (mag[4] = 2^15 /\ (mag[3] /= 0 \/ mag[2] /= 0 \/ mag[1] /= 0))
  ELSE mag[4] /= 0 \/ mag[3] /= 0 \/ mag[2] > 2^15 \/ (mag[2] = 2^15 /\ mag[1] /= 0)

MaxIntMag(bits) ==
  IF bits = 64 THEN <<Base - 1, Base - 1, Base - 1, 2^15 - 1>>
  ELSE <<Base - 1, 2^15 - 1, 0, 0>>

MinIntMag(bits) ==
  IF bits = 64 THEN <<0, 0, 0, 2^15>> ELSE <<0, 2^15, 0, 0>>

\* strconv.Atoi with its error dropped (v, _ := strconv.Atoi(s)): 0 on a
\* syntax error, the nearest int on a range error.  bits is the size of int.
Atoi(s, bits) ==
  LET signed == s /= <<>> /\ s[1] \in {"+", "-"}
      neg    == s /= <<>> /\ s[1] = "-"
      ds     == IF signed THEN Tail(s) ELSE s
      p      == ParseMag(ds, ZeroMag, FALSE)
  IN IF ds = <<>> \/ \E i \in 1..Len(ds) : ~IsDigit(ds[i])
     THEN [neg |-> FALSE, mag |-> ZeroMag]
     ELSE IF neg
     THEN IF p.over \/ AboveMinInt(p.mag, bits)
          THEN [neg |-> TRUE, mag |-> MinIntMag(bits)]
          ELSE [neg |-> p.mag /= ZeroMag, mag |-> p.mag]
     ELSE IF p.over \/ AboveMaxInt(p.mag, bits)
          THEN [neg |-> FALSE, mag |-> MaxIntMag(bits)]
          ELSE [neg |-> FALSE, mag |-> p.mag]

\* uint32(v): the low 32 bits of the two's complement of v.
ToUint32(v) ==
  LET lo == v.mag[1]
      hi == v.mag[2]
  IN IF ~v.neg THEN [hi |-> hi, lo |-> lo]
     ELSE IF lo = 0 THEN [hi |-> (Base - hi) % Base, lo |-> 0]
     ELSE [hi |-> Base - 1 - hi, lo |-> Base - lo]

\* uint16(v): the low 16 bits.
ToUint16(v) == ToUint32(v).lo

\* uint8(v): the low 8 bits.
ToUint8(v) == ToUint32(v).lo % 2^8

\* int32(v): the low 32 bits read as a signed number.
ToInt32(v) ==
  LET u == ToUint32(v)
  IN IF u.hi < 2^15 THEN [neg |-> FALSE, hi |-> u.hi, lo |-> u.lo]
     ELSE IF u.lo = 0 THEN [neg |-> TRUE, hi |-> Base - u.hi, lo |-> 0]
     ELSE [neg |-> TRUE, hi |-> Base - 1 - u.hi, lo |-> Base - u.lo]

\* a <= b on unsigned two-limb numbers
LeqU32(a, b) == a.hi < b.hi \/ (a.hi = b.hi /\ a.lo <= b.lo)

\* 0x1FFFFFFF
Max29 == [hi |-> 2^13 - 1, lo |-> Base - 1]

\* ------------------------------------------------------------ regexp.Match

\* A pattern is a sequence of alternatives (the parts between |), each a
\* sequence of tokens.  A token is an atom with a repetition ("1", "+", "*"):
\*   bol ^, eol $, any ., class [..] (a set of byte values), group (..),
\* or "bareop": a repetition operator with nothing before it to repeat.
Bol == [kind |-> "bol", rep |-> "1"]

Eol == [kind |-> "eol", rep |-> "1"]

Dot == [kind |-> "any", rep |-> "1"]

BareStar == [kind |-> "bareop", rep |-> "*"]

Class(set, rep) == [kind |-> "class", set |-> set, rep |-> rep]

Group(alts, rep) == [kind |-> "group", alts |-> alts, rep |-> rep]

\* regexp.Compile: "missing argument to repetition operator" when an
\* alternative starts with * + or ?.
Compiles(pattern) ==
  \A k \in 1..Len(pattern) :
    \A t \in 1..Len(pattern[k]) : pattern[k][t].kind /= "bareop"

RECURSIVE AltsEnds(_, _, _), SeqEnds(_, _, _), PlusEnds(_, _, _, _)

\* The positions after one occurrence of tok's atom matched at position i.
AtomEnds(tok, text, i) ==
  CASE tok.kind = "bol"   -> IF i = 1 THEN {i} ELSE {}
    [] tok.kind = "eol"   -> IF i = Len(text) + 1 THEN {i} ELSE {}
    [] tok.kind = "any"   -> IF i <= Len(text) /\ text[i] /= "\n" THEN {i + 1} ELSE {}
    [] tok.kind = "class" -> IF i <= Len(text) /\ Ord(text[i]) \in tok.set
                             THEN {i + 1} ELSE {}
    [] tok.kind = "group" -> AltsEnds(tok.alts, text, i)
    [] OTHER              -> {}

\* The positions after one or more occurrences, from the set of positions from.
PlusEnds(tok, text, from, acc) ==
  LET new == UNION {AtomEnds(tok, text, j) : j \in from} \ acc
  IN IF new = {} THEN acc ELSE PlusEnds(tok, text, new, acc \cup new)

TokEnds(tok, text, i) ==
  CASE tok.rep = "1" -> AtomEnds(tok, text, i)
    [] tok.rep = "+" -> PlusEnds(tok, text, {i}, {})
    [] tok.rep = "*" -> {i} \cup PlusEnds(tok, text, {i}, {})

SeqEnds(toks, text, i) ==
  IF toks = <<>> THEN {i}
  ELSE UNION {SeqEnds(Tail(toks), text, j) : j \in TokEnds(Head(toks), text, i)}

AltsEnds(alts, text, i) ==
  UNION {SeqEnds(alts[k], text, i) : k \in 1..Len(alts)}

\* m, _ := regexp.Match(pattern, text): a pattern that does not compile
\* gives m = false; otherwise an unanchored search.
regexpMatch(pattern, text) ==
  /\ Compiles(pattern)
  /\ \E i \in 1..(Len(text) + 1) : AltsEnds(pattern, text, i) /= {}

DigitClass == Ords({"0", "1", "2", "3", "4", "5", "6", "7", "8", "9"})

\* [!-~]
GraphClass == 33..126

\* [!-)+-<>-~]
NameStartClass == (33..41) \cup (43..60) \cup (62..126)

\* [!-()+-<>-~]: the ranges !-( and +-< and >-~, and the single )
RefStartClass == (33..40) \cup {41} \cup (43..60) \cup (62..126)

\* "^[0-9]+.[0-9]+$"
VersionPattern == << <<Bol, Class(DigitClass, "+"), Dot, Class(DigitClass, "+"), Eol>> >>

\* "[!-)+-<>-~][!-~]*"
RefSeqNamePattern == << <<Class(NameStartClass, "1"), Class(GraphClass, "*")>> >>

\* "*|[ACMGRSVTWYHKDBN]+"
FlowOrderPattern ==
  << <<BareStar>>,
     <<Class(Ords({"A", "C", "M", "G", "R", "S", "V", "T", "W", "Y", "H", "K",
                   "D", "B", "N"}), "+")>> >>

\* "*|[!-?A-~]+"
QnamePattern == << <<BareStar>>, <<Class((33..63) \cup (65..126), "+")>> >>

\* "*|[!-()+-<>-~][!-~]*"
RefNamePattern ==
  << <<BareStar>>, <<Class(RefStartClass, "1"), Class(GraphClass, "*")>> >>

\* "*|([0-9]+[MIDNSHPX=])+"
CigarPattern ==
  << <<BareStar>>,
     <<Group(<< <<Class(DigitClass, "+"),
                  Class(Ords({"M", "I", "D", "N", "S", "H", "P", "X", "="}), "1")>> >>,
             "+")>> >>

\* "*|=|[!-()+-<>-~][!-~]*"
NextRefPattern ==
  << <<BareStar>>, <<Class(Ords({"="}), "1")>>,
     <<Class(RefStartClass, "1"), Class(GraphClass, "*")>> >>

\* "*|[A-Za-z=.]+"
SeqPattern ==
  << <<BareStar>>, <<Class((65..90) \cup (97..122) \cup Ords({"=", "."}), "+")>> >>

\* "*|[!-~]+"
QualPattern == << <<BareStar>>, <<Class(GraphClass, "+")>> >>

\* ------------------------------------------------------------ errors

NoError == <<>>

\* SAMerror{str}
SAMerror(str) == <<[str |-> str]>>

\* A pointer: nil, or the address of a value.
NilPtr == <<>>

Ptr(v) == <<v>>

\* The outcome of a parser: the record it returns, or a run-time panic.
Parsed(v) == [panic |-> FALSE, val |-> v]

Panicked(v) == [panic |-> TRUE, val |-> v]

\* The outcome of a validator: (bool, error).
Validation(valid, err) == [valid |-> valid, err |-> err]

\* ------------------------------------------------------------ header

EmptyHeaderLine == [Version |-> <<>>, SortOrder |-> <<>>]

validateHeader(hl) ==
  IF ~regexpMatch(VersionPattern, hl.Version)
  THEN Validation(FALSE, SAMerror("Invalid version in SAM Header"))
  ELSE Validation(TRUE, NoError)

\* hlParseMap with a setter of last resort: an unknown tag sets SortOrder.
hlParseMapCatchAll(tag, val, hl) ==
  CASE tag = <<"V", "N">> -> [hl EXCEPT !.Version = val]
    [] OTHER -> [hl EXCEPT !.SortOrder = val]

\* hlParseMap[tag], applied when it is not nil
hlParseMap(tag, val, hl) ==
  CASE tag = <<"V", "N">> -> [hl EXCEPT !.Version = val]
    [] tag = <<"S", "O">> -> [hl EXCEPT !.SortOrder = val]
    [] OTHER -> hl

RECURSIVE parseHeaderFields(_, _)
\* The loop of parseHeader over tvs[1:]; tva[1] panics when tv has no colon.
parseHeaderFields(tvs, hl) ==
  IF tvs = <<>> THEN Parsed(hl)
  ELSE LET tva == Split(Head(tvs), ":")
       IN IF Len(tva) < 2 THEN Panicked(hl)
          ELSE parseHeaderFields(Tail(tvs), hlParseMap(tva[1], tva[2], hl))

parseHeader(line) == parseHeaderFields(Tail(Split(line, "\t")), EmptyHeaderLine)

\* ------------------------------------------------------------ @SQ

EmptyRefSeqDict ==
  [Name |-> <<>>, Length |-> [hi |-> 0, lo |-> 0], AssemblyID |-> <<>>,
   MD5 |-> <<>>, Species |-> <<>>, URI |-> <<>>]

validateRefSeqDict(rsd) ==
  IF ~regexpMatch(RefSeqNamePattern, rsd.Name)
  THEN Validation(FALSE, SAMerror("Invalid reference sequence name"))
  ELSE Validation(/\ LeqU32([hi |-> 0, lo |-> 1], rsd.Length)
               /\ LeqU32(rsd.Length, Max29),
               NoError)

rsdKnownTags ==
  {<<"S", "N">>, <<"L", "N">>, <<"A", "S">>, <<"M", "5">>, <<"S", "P">>, <<"U", "R">>}

\* The switch of parseRefSeqDict on tva[0], for a tva that has a tva[1].
rsdSetField(tag, val, rsd, bits) ==
  CASE tag = <<"S", "N">> -> [rsd EXCEPT !.Name = val]
    [] tag = <<"L", "N">> -> [rsd EXCEPT !.Length = ToUint32(Atoi(val, bits))]
    [] tag = <<"A", "S">> -> [rsd EXCEPT !.AssemblyID = val]
    [] tag = <<"M", "5">> -> [rsd EXCEPT !.MD5 = val]
    [] tag = <<"S", "P">> -> [rsd EXCEPT !.Species = val]
    [] tag = <<"U", "R">> -> [rsd EXCEPT !.URI = val]
    [] OTHER -> rsd

RECURSIVE parseRefSeqDictFields(_, _, _)
\* The loop of parseRefSeqDict: tva[1] is read only in a case of the switch.
parseRefSeqDictFields(tvs, rsd, bits) ==
  IF tvs = <<>> THEN Parsed(rsd)
  ELSE LET tva == Split(Head(tvs), ":")
       IN IF tva[1] \notin rsdKnownTags
          THEN parseRefSeqDictFields(Tail(tvs), rsd, bits)
          ELSE IF Len(tva) < 2 THEN Panicked(rsd)
          ELSE parseRefSeqDictFields(Tail(tvs), rsdSetField(tva[1], tva[2], rsd, bits), bits)

parseRefSeqDict(line, bits) ==
  parseRefSeqDictFields(Tail(Split(line, "\t")), EmptyRefSeqDict, bits)

\* ------------------------------------------------------------ @RG

EmptyReadGroup ==
  [ID |-> <<>>, SeqCenter |-> <<>>, Description |-> <<>>, Date |-> <<>>,
   FlowOrder |-> <<>>, KeySeq |-> <<>>, Lib |-> <<>>, Programs |-> <<>>,
   PMIS |-> <<>>, Platform |-> <<>>, Unit |-> <<>>, Sample |-> <<>>]

validPlatforms ==
  { <<"C", "A", "P", "I", "L", "L", "A", "R", "Y">>,
    <<"L", "S", "4", "5", "4">>,
    <<"I", "L", "L", "U", "M", "I", "N", "A">>,
    <<"S", "O", "L", "I", "D">>,
    <<"H", "E", "L", "I", "C", "O", "S">>,
    <<"I", "O", "N", "T", "O", "R", "R", "E", "N", "T">>,
    <<"P", "A", "C", "B", "I", "O">> }

validateReadGroup(rg) ==
  IF rg.FlowOrder /= <<>> /\ ~regexpMatch(FlowOrderPattern, rg.FlowOrder)
  THEN Validation(FALSE, SAMerror("Invalid flow order in read group"))
  ELSE IF rg.Platform /= <<>> /\ rg.Platform \notin validPlatforms
  THEN Validation(FALSE, SAMerror("Invalid platform in read group"))
  ELSE Validation(TRUE, NoError)

\* rgParseMap[tag], applied when it is not nil
rgParseMap(tag, s, rg) ==
  CASE tag = <<"I", "D">> -> [rg EXCEPT !.ID = s]
    [] tag = <<"C", "N">> -> [rg EXCEPT !.SeqCenter = s]
    [] tag = <<"D", "S">> -> [rg EXCEPT !.Description = s]
    [] tag = <<"D", "T">> -> [rg EXCEPT !.Date = s]
    [] tag = <<"F", "O">> -> [rg EXCEPT !.FlowOrder = s]
    [] tag = <<"K", "S">> -> [rg EXCEPT !.KeySeq = s]
    [] tag = <<"L", "B">> -> [rg EXCEPT !.Lib = s]
    [] tag = <<"P", "G">> -> [rg EXCEPT !.Programs = s]
    [] tag = <<"P", "I">> -> [rg EXCEPT !.PMIS = s]
    [] tag = <<"P", "L">> -> [rg EXCEPT !.Platform = s]
    [] tag = <<"P", "U">> -> [rg EXCEPT !.Unit = s]
    [] tag = <<"S", "M">> -> [rg EXCEPT !.Sample = s]
    [] OTHER -> rg

RECURSIVE parseReadGroupFields(_, _)
parseReadGroupFields(tvs, rg) ==
  IF tvs = <<>> THEN Parsed(rg)
  ELSE LET tva == Split(Head(tvs), ":")
       IN IF Len(tva) < 2 THEN Panicked(rg)
          ELSE parseReadGroupFields(Tail(tvs), rgParseMap(tva[1], tva[2], rg))

parseReadGroup(line) == parseReadGroupFields(Tail(Split(line, "\t")), EmptyReadGroup)

\* ------------------------------------------------------------ @PG

EmptyProgram == [ID |-> <<>>, Name |-> <<>>, CmdLine |-> <<>>, PrevID |-> <<>>]

validateProgram(prog) ==
  IF prog.ID = <<>>
  THEN Validation(FALSE, SAMerror("Program ID is required"))
  ELSE Validation(TRUE, NoError)

\* programParseMap[tag], applied when it is not nil
programParseMap(tag, s, prog) ==
  CASE tag = <<"I", "D">> -> [prog EXCEPT !.ID = s]
    [] tag = <<"P", "N">> -> [prog EXCEPT !.Name = s]
    [] tag = <<"C", "L">> -> [prog EXCEPT !.CmdLine = s]
    [] tag = <<"P", "P">> -> [prog EXCEPT !.PrevID = s]
    [] OTHER -> prog

RECURSIVE parseProgramFields(_, _)
parseProgramFields(tvs, prog) ==
  IF tvs = <<>> THEN Parsed(prog)
  ELSE LET tva == Split(Head(tvs), ":")
       IN IF Len(tva) < 2 THEN Panicked(prog)
          ELSE parseProgramFields(Tail(tvs), programParseMap(tva[1], tva[2], prog))

parseProgram(line) == parseProgramFields(Tail(Split(line, "\t")), EmptyProgram)

\* ------------------------------------------------------------ alignments

\* fields[0..10] are read in order: fewer than 11 fields panic.
parseAlignment(line, bits) ==
  LET fields == Split(line, "\t")
  IN IF Len(fields) < 11 THEN Panicked(<<>>)
     ELSE Parsed(
       [Qname       |-> fields[1],
        Flag        |-> ToUint16(Atoi(fields[2], bits)),
        RefName     |-> fields[3],
        Pos         |-> ToUint32(Atoi(fields[4], bits)),
        Mapq        |-> ToUint8(Atoi(fields[5], bits)),
        Cigar       |-> fields[6],
        NextRef     |-> fields[7],
        NextPos     |-> ToUint32(Atoi(fields[8], bits)),
        TemplateLen |-> ToInt32(Atoi(fields[9], bits)),
        Seq         |-> fields[10],
        Qual        |-> fields[11]])

\* |t| > 0x1FFFFFFF for a signed 32-bit t
TemplateLenOutOfRange(t) == ~LeqU32([hi |-> t.hi, lo |-> t.lo], Max29)

validateAlignment(a) ==
  IF ~regexpMatch(QnamePattern, a.Qname)
  THEN Validation(FALSE, SAMerror("Invalid qname in alignment"))
  ELSE IF a.Flag < 0 \/ a.Flag > 2^16 - 1
  THEN Validation(FALSE, SAMerror("Invalid flag in alignment"))
  ELSE IF ~regexpMatch(RefNamePattern, a.RefName)
  THEN Validation(FALSE, SAMerror("Invalid reference sequence name in alignment"))
  ELSE IF ~LeqU32(a.Pos, Max29)
  THEN Validation(FALSE, SAMerror("Alignment mapping position out of valid range"))
  ELSE IF a.Mapq < 0 \/ a.Mapq > 2^8 - 1
  THEN Validation(FALSE, SAMerror("Alignment mapping quality out of valid range"))
  ELSE IF ~regexpMatch(CigarPattern, a.Cigar)
  THEN Validation(FALSE, SAMerror("Invalid CIGAR string in alignment"))
  ELSE IF ~regexpMatch(NextRefPattern, a.NextRef)
  THEN Validation(FALSE, SAMerror("Invalid next reference name in alignment"))
  ELSE IF ~LeqU32(a.NextPos, Max29)
  THEN Validation(FALSE, SAMerror("Alignment mapping position out of valid range"))
  ELSE IF TemplateLenOutOfRange(a.TemplateLen)
  THEN Validation(FALSE, SAMerror("Invalid template length"))
  ELSE IF ~regexpMatch(SeqPattern, a.Seq)
  THEN Validation(FALSE, SAMerror("Invalid sequence in alignment"))
  ELSE IF ~regexpMatch(QualPattern, a.Qual)
  THEN Validation(FALSE, SAMerror("Invalie Phred quality in alignment"))
      ELSE Validation(TRUE, NoError)

\* ------------------------------------------------------------ input lines

Tab == <<"\t">>

RECURSIVE JoinTab(_)
\* The pieces joined by tabs: the text of one line.
JoinTab(pieces) ==
  IF Len(pieces) = 1 THEN pieces[1]
  ELSE pieces[1] \o Tab \o JoinTab(Tail(pieces))

TagHD == <<"@", "H", "D">>

TagSQ == <<"@", "S", "Q">>

TagRG == <<"@", "R", "G">>

TagPG == <<"@", "P", "G">>

TagCO == <<"@", "C", "O">>

FieldVN10 == <<"V", "N", ":", "1", ".", "0">>

FieldVN1x0 == <<"V", "N", ":", "1", "x", "0">>

FieldVNbad == <<"V", "N", ":", "x">>

FieldVNbare == <<"V", "N">>

FieldZZ == <<"Z", "Z", ":", "f", "o", "o">>

FieldSNa == <<"S", "N", ":", "a">>

FieldSNb == <<"S", "N", ":", "b">>

FieldSNc == <<"S", "N", ":", "c">>

FieldLN1 == <<"L", "N", ":", "1">>

FieldLN0 == <<"L", "N", ":", "0">>

\* 2^29
FieldLN2p29 == <<"L", "N", ":", "5", "3", "6", "8", "7", "0", "9", "1", "2">>

\* 2^32 + 1
FieldLN2p32 == <<"L", "N", ":", "4", "2", "9", "4", "9", "6", "7", "2", "9", "7">>

FieldURcolon == <<"U", "R", ":", "f", ":", "x">>

FieldIDg == <<"I", "D", ":", "g">>

FieldIDh == <<"I", "D", ":", "h">>

FieldIDp == <<"I", "D", ":", "p">>

FieldPNp == <<"P", "N", ":", "p">>

FieldFO == <<"F", "O", ":", "A", "C", "G", "T">>

FieldPLok == <<"P", "L", ":", "S", "O", "L", "I", "D">>

FieldPLbad == <<"P", "L", ":", "X">>

LineHD          == JoinTab(<<TagHD, FieldVN10>>)

LineHDwild      == JoinTab(<<TagHD, FieldVN1x0>>)

LineHDbad       == JoinTab(<<TagHD, FieldVNbad>>)

LineHDunknown   == JoinTab(<<TagHD, FieldVN10, FieldZZ>>)

LineHDbare      == JoinTab(<<TagHD, FieldVNbare>>)

LineSQa         == JoinTab(<<TagSQ, FieldSNa, FieldLN1>>)

LineSQbURI      == JoinTab(<<TagSQ, FieldSNb, FieldLN1, FieldURcolon>>)

LineSQaLN0      == JoinTab(<<TagSQ, FieldSNa, FieldLN0>>)

LineSQcLN2p29   == JoinTab(<<TagSQ, FieldSNc, FieldLN2p29>>)

LineSQcLN2p32   == JoinTab(<<TagSQ, FieldSNc, FieldLN2p32>>)

LineRGg         == JoinTab(<<TagRG, FieldIDg>>)

LineRGgFO       == JoinTab(<<TagRG, FieldIDg, FieldFO>>)

LineRGhPL       == JoinTab(<<TagRG, FieldIDh, FieldPLok>>)

LineRGhPLbad    == JoinTab(<<TagRG, FieldIDh, FieldPLbad>>)

LinePGp         == JoinTab(<<TagPG, FieldIDp>>)

LinePGnoID      == JoinTab(<<TagPG, FieldPNp>>)

LineCO          == JoinTab(<<TagCO, <<"h", "i">>>>)

\* r1  0  a  1  255  1M  *  0  0  A  I
LineAlignment ==
  JoinTab(<< <<"r", "1">>, <<"0">>, <<"a">>, <<"1">>, <<"2", "5", "5">>,
             <<"1", "M">>, <<"*">>, <<"0">>, <<"0">>, <<"A">>, <<"I">> >>)

\* the first five fields only
LineAlignment5 ==
  JoinTab(<< <<"r", "1">>, <<"0">>, <<"a">>, <<"1">>, <<"2", "5", "5">> >>)

LineEmpty == <<>>

\* a line without the leading @ whose second and third characters are HD
LineNoMarkerHD == JoinTab(<< <<"q", "H", "D">>, FieldVN10>>)

\* The lines the reader may hand to one scan.
ScanLines ==
  { LineHD, LineHDwild, LineHDbad, LineHDunknown, LineHDbare,
    LineSQa, LineSQbURI, LineSQaLN0, LineSQcLN2p29, LineSQcLN2p32,
    LineRGg, LineRGgFO, LineRGhPL, LineRGhPLbad,
    LinePGp, LinePGnoID, LineCO,
    LineAlignment, LineAlignment5, LineEmpty, LineNoMarkerHD }

\* ------------------------------------------------------------ ReadSAMFile

\* s[1:3]; the slice panics when len(s) < 3
lineTag(s) == SubSeq(s, 2, 3)

NoReturn == <<>>

\* return h, a, b, c, d, e
Return(h, a, b, c, d, e) ==
  <<[header |-> h, rsdl |-> a, rgl |-> b, progl |-> c, al |-> d, err |-> e]>>

NoResult == <<>>

Init ==
  /\ pc = "open"
  /\ intSize \in {32, 64}
  /\ header = NilPtr
  /\ rsdl = <<>> /\ rgl = <<>> /\ progl = <<>> /\ al = <<>>
  /\ rsdNames = {} /\ rgIDs = {} /\ progIDs = {}
  /\ ret = NoReturn
  /\ consumed = <<>>
  /\ probe = <<>>
  /\ result = NoResult

scanState == <<header, rsdl, rgl, progl, al, rsdNames, rgIDs, progIDs>>

\* os.Open succeeds: the lists and the maps are made, the loop starts.
OpenFile ==
  /\ pc = "open"
  /\ pc' = "scanning"
  /\ UNCHANGED <<intSize, scanState, ret, consumed, probe, result>>

\* os.Open fails: everything nil, and the error.
OpenFails ==
  /\ pc = "open"
  /\ pc' = "openfailed"
  /\ ret' = Return(NilPtr, NilPtr, NilPtr, NilPtr, NilPtr, <<[str |-> "open"]>>)
  /\ UNCHANGED <<intSize, scanState, consumed, probe, result>>

\* reader.ReadLine() hands over line: the loop body runs on it.
Reads(line) ==
  /\ pc = "scanning"
  /\ Len(consumed) < MaxLines
  /\ line \in ScanLines
  /\ consumed' = Append(consumed, line)
  /\ UNCHANGED <<intSize, probe, result>>

\* s[1:3] on a line of fewer than three bytes
ScanShortLine(line) ==
  /\ Reads(line)
  /\ Len(line) < 3
  /\ pc' = "panicked"
  /\ UNCHANGED <<scanState, ret>>

\* case "HD"
ScanHeader(line) ==
  /\ Reads(line)
  /\ Len(line) >= 3 /\ lineTag(line) = <<"H", "D">>
  /\ LET p == parseHeader(line)
         v == validateHeader(p.val)
     IN IF p.panic
        THEN pc' = "panicked" /\ UNCHANGED <<header, ret>>
        ELSE /\ header' = Ptr(p.val)
             /\ IF ~v.valid
                THEN /\ pc' = "aborted"
                     /\ ret' = Return(Ptr(p.val), NilPtr, NilPtr, NilPtr, NilPtr, v.err)
                ELSE UNCHANGED <<pc, ret>>
  /\ UNCHANGED <<rsdl, rgl, progl, al, rsdNames, rgIDs, progIDs>>

\* case "SQ"
ScanRefSeqDict(line) ==
  /\ Reads(line)
  /\ Len(line) >= 3 /\ lineTag(line) = <<"S", "Q">>
  /\ LET p == parseRefSeqDict(line, intSize)
         v == validateRefSeqDict(p.val)
     IN IF p.panic
        THEN pc' = "panicked" /\ UNCHANGED <<rsdl, rsdNames, ret>>
        ELSE IF ~v.valid
        THEN /\ pc' = "aborted"
             /\ ret' = Return(header, NilPtr, NilPtr, NilPtr, NilPtr, v.err)
             /\ UNCHANGED <<rsdl, rsdNames>>
        ELSE IF p.val.Name \in rsdNames
        THEN /\ pc' = "aborted"
             /\ ret' = Return(header, Ptr(rsdl), NilPtr, NilPtr, NilPtr,
                              SAMerror("Reference sequence name is not unique"))
             /\ UNCHANGED <<rsdl, rsdNames>>
        ELSE /\ rsdNames' = rsdNames \cup {p.val.Name}
             /\ rsdl' = Append(rsdl, p.val)
             /\ UNCHANGED <<pc, ret>>
  /\ UNCHANGED <<header, rgl, progl, al, rgIDs, progIDs>>

\* case "RG"
ScanReadGroup(line) ==
  /\ Reads(line)
  /\ Len(line) >= 3 /\ lineTag(line) = <<"R", "G">>
  /\ LET p == parseReadGroup(line)
         v == validateReadGroup(p.val)
     IN IF p.panic
        THEN pc' = "panicked" /\ UNCHANGED <<rgl, rgIDs, ret>>
        ELSE IF ~v.valid
        THEN /\ pc' = "aborted"
             /\ ret' = Return(header, Ptr(rsdl), Ptr(rgl), NilPtr, NilPtr, v.err)
             /\ UNCHANGED <<rgl, rgIDs>>
        ELSE IF p.val.ID \in rgIDs
        THEN /\ pc' = "aborted"
             /\ ret' = Return(header, Ptr(rsdl), Ptr(rgl), NilPtr, NilPtr,
                              SAMerror("Read group name is not unique"))
             /\ UNCHANGED <<rgl, rgIDs>>
        ELSE /\ rgIDs' = rgIDs \cup {p.val.ID}
             /\ rgl' = Append(rgl, p.val)
             /\ UNCHANGED <<pc, ret>>
  /\ UNCHANGED <<header, rsdl, progl, al, rsdNames, progIDs>>

\* case "PG"
ScanProgram(line) ==
  /\ Reads(line)
  /\ Len(line) >= 3 /\ lineTag(line) = <<"P", "G">>
  /\ LET p == parseProgram(line)
         v == validateProgram(p.val)
     IN IF p.panic
        THEN pc' = "panicked" /\ UNCHANGED <<progl, progIDs, ret>>
        ELSE IF ~v.valid
        THEN /\ pc' = "aborted"
             /\ ret' = Return(header, Ptr(rsdl), Ptr(rgl), Ptr(progl), NilPtr, v.err)
             /\ UNCHANGED <<progl, progIDs>>
        ELSE IF p.val.ID \in progIDs
        THEN /\ pc' = "aborted"
             /\ ret' = Return(header, Ptr(rsdl), Ptr(rgl), Ptr(progl), NilPtr,
                              SAMerror("Program ID is not unique"))
             /\ UNCHANGED <<progl, progIDs>>
        ELSE /\ progIDs' = progIDs \cup {p.val.ID}
             /\ progl' = Append(progl, p.val)
             /\ UNCHANGED <<pc, ret>>
  /\ UNCHANGED <<header, rsdl, rgl, al, rsdNames, rgIDs>>

\* case "CO": nothing
ScanComment(line) ==
  /\ Reads(line)
  /\ Len(line) >= 3 /\ lineTag(line) = <<"C", "O">>
  /\ UNCHANGED <<pc, scanState, ret>>

MetaTags == {<<"H", "D">>, <<"S", "Q">>, <<"R", "G">>, <<"P", "G">>, <<"C", "O">>}

\* default
ScanAlignment(line) ==
  /\ Reads(line)
  /\ Len(line) >= 3 /\ lineTag(line) \notin MetaTags
  /\ LET p == parseAlignment(line, intSize)
         v == validateAlignment(p.val)
     IN IF p.panic
        THEN pc' = "panicked" /\ UNCHANGED <<al, ret>>
        ELSE IF ~v.valid
        THEN /\ pc' = "aborted"
             /\ ret' = Return(header, Ptr(rsdl), Ptr(rgl), Ptr(progl), Ptr(al), v.err)
             /\ UNCHANGED al
        ELSE /\ al' = Append(al, p.val)
             /\ UNCHANGED <<pc, ret>>
  /\ UNCHANGED <<header, rsdl, rgl, progl, rsdNames, rgIDs, progIDs>>

\* reader.ReadLine() reports an error (the end of the file): the loop ends,
\* and the err returned is the one of os.Open, nil.
EndOfInput ==
  /\ pc = "scanning"
  /\ pc' = "completed"
  /\ ret' = Return(header, Ptr(rsdl), Ptr(rgl), Ptr(progl), Ptr(al), NoError)
  /\ UNCHANGED <<intSize, scanState, consumed, probe, result>>

Next ==
  \/ OpenFile
  \/ OpenFails
  \/ \E line \in ScanLines : ScanShortLine(line)
  \/ \E line \in ScanLines : ScanHeader(line)
  \/ \E line \in ScanLines : ScanRefSeqDict(line)
  \/ \E line \in ScanLines : ScanReadGroup(line)
  \/ \E line \in ScanLines : ScanProgram(line)
  \/ \E line \in ScanLines : ScanComment(line)
  \/ \E line \in ScanLines : ScanAlignment(line)
  \/ EndOfInput

Spec == Init /\ [][Next]_vars

\* ------------------------------------------------------------ one parser on one line

\* The fields a metadata line under test is put together from.
ProbeFields ==
  { FieldVN10, FieldVNbad, FieldVNbare, FieldZZ, <<"Z", "Z", ":">>,
    <<"Z", "Z", ":", "a", ":", "b">>, <<"Z", "Z">>, <<>>, FieldSNa, FieldLN1, FieldLN0,
    FieldURcolon, FieldIDg, FieldFO, FieldPLok, FieldPLbad }

RECURSIVE FieldSeqs(_)
\* The sequences of at most n fields.
FieldSeqs(n) ==
  IF n = 0 THEN {<<>>}
  ELSE FieldSeqs(n - 1) \cup
       {Append(fs, f) : fs \in {g \in FieldSeqs(n - 1) : Len(g) = n - 1}, f \in ProbeFields}

ProbeLines ==
  {JoinTab(<<tag>> \o fs) : tag \in {TagHD, TagSQ, TagRG, TagPG}, fs \in FieldSeqs(MaxFields)}

\* What the loop body sees of one metadata line: the parser's record (or its
\* panic) and, when it returned, the validator's answer on that record.
Outcome(p, checked) ==
  <<[panic |-> p.panic, val |-> p.val,
     validation |-> IF p.panic THEN <<>> ELSE << checked >>]>>

headerOutcome(line) ==
  LET p == parseHeader(line) IN Outcome(p, validateHeader(p.val))

refSeqDictOutcome(line, bits) ==
  LET p == parseRefSeqDict(line, bits) IN Outcome(p, validateRefSeqDict(p.val))

readGroupOutcome(line) ==
  LET p == parseReadGroup(line) IN Outcome(p, validateReadGroup(p.val))

programOutcome(line) ==
  LET p == parseProgram(line) IN Outcome(p, validateProgram(p.val))

lineOutcome(line, bits) ==
  CASE lineTag(line) = <<"H", "D">> -> headerOutcome(line)
    [] lineTag(line) = <<"S", "Q">> -> refSeqDictOutcome(line, bits)
    [] lineTag(line) = <<"R", "G">> -> readGroupOutcome(line)
    [] lineTag(line) = <<"P", "G">> -> programOutcome(line)

InitParse ==
  /\ pc = "probe"
  /\ intSize \in {32, 64}
  /\ header = NilPtr
  /\ rsdl = <<>> /\ rgl = <<>> /\ progl = <<>> /\ al = <<>>
  /\ rsdNames = {} /\ rgIDs = {} /\ progIDs = {}
  /\ ret = NoReturn
  /\ consumed = <<>>
  /\ probe \in ProbeLines
  /\ result = NoResult

Probes(tag) ==
  /\ pc = "probe"
  /\ lineTag(probe) = tag
  /\ pc' = "probed"
  /\ UNCHANGED <<intSize, scanState, ret, consumed, probe>>

\* parseHeader then validateHeader
ProbeHeader == Probes(<<"H", "D">>) /\ result' = headerOutcome(probe)

\* parseRefSeqDict then validateRefSeqDict
ProbeRefSeqDict == Probes(<<"S", "Q">>) /\ result' = refSeqDictOutcome(probe, intSize)

\* parseReadGroup then validateReadGroup
ProbeReadGroup == Probes(<<"R", "G">>) /\ result' = readGroupOutcome(probe)

\* parseProgram then validateProgram
ProbeProgram == Probes(<<"P", "G">>) /\ result' = programOutcome(probe)

NextParse == ProbeHeader \/ ProbeRefSeqDict \/ ProbeReadGroup \/ ProbeProgram

SpecParse == InitParse /\ [][NextParse]_vars

\* ------------------------------------------------------------ what the claims speak of

\* The line the loop body ran on last.
lastLine == consumed[Len(consumed)]

Returned == ret[1]

\* The bytes 1 and 2 of the line are the tag and byte 0 is the marker.
StartsWithMarker(line) == Len(line) >= 1 /\ line[1] = "@"

HasTag(line, tag) == Len(line) >= 3 /\ lineTag(line) = tag

\* The fields after the tag field.
FieldsOf(line) == Tail(Split(line, "\t"))

\* The number of tab-separated fields of the line.
FieldCount(line) == Len(Split(line, "\t"))

\* The text of a field after its first colon.
AfterFirstColon(f) == SubSeq(f, IndexOf(f, ":") + 1, Len(f))

\* The fields of the line that read key:value for this key.
FieldsWithKey(line, key) ==
  {i \in 1..Len(FieldsOf(line)) :
     LET f == FieldsOf(line)[i]
     IN Len(f) >= 3 /\ SubSeq(f, 1, 2) = key /\ f[3] = ":"}

\* The value the line gives the key: the text after the first colon of its
\* last field with that key, the empty string when it has no such field.
ValueOf(line, key) ==
  IF FieldsWithKey(line, key) = {} THEN <<>>
  ELSE LET i == CHOOSE k \in FieldsWithKey(line, key) :
                  \A j \in FieldsWithKey(line, key) : j <= k
       IN AfterFirstColon(FieldsOf(line)[i])

AllDigits(t) == t /= <<>> /\ \A i \in 1..Len(t) : IsDigit(t[i])

\* The decimal text t names an integer of [1, 2^29 - 1].
InLengthRange(t) ==
  /\ AllDigits(t)
  /\ LET p == ParseMag(t, ZeroMag, FALSE)
     IN /\ ~p.over
        /\ p.mag /= ZeroMag
        /\ p.mag[4] = 0 /\ p.mag[3] = 0 /\ p.mag[2] < 2^13

\* One or more digits, a '.', one or more digits.
IsVersion(t) ==
  \E k \in 2..(Len(t) - 1) :
    /\ t[k] = "."
    /\ AllDigits(SubSeq(t, 1, k - 1))
    /\ AllDigits(SubSeq(t, k + 1, Len(t)))

FlowLetters == {"A", "C", "M", "G", "R", "S", "V", "T", "W", "Y", "H", "K", "D", "B", "N"}

\* Empty, or "*", or letters of the flow alphabet.
IsFlowOrder(t) == t = <<>> \/ t = <<"*">> \/ \A i \in 1..Len(t) : t[i] \in FlowLetters

IsPlatform(t) == t = <<>> \/ t \in validPlatforms

GrammarErrors ==
  { SAMerror("Invalid version in SAM Header"),
    SAMerror("Invalid reference sequence name"),
    SAMerror("Invalid flow order in read group"),
    SAMerror("Invalid platform in read group"),
    SAMerror("Program ID is required"),
    SAMerror("Invalid qname in alignment") }

\* No two records of the list have the same value in the field id.
Distinct(list, id(_)) ==
  \A i, j \in 1..Len(list) : id(list[i]) = id(list[j]) => i = j

RECURSIVE RemoveAt(_, _)
RemoveAt(seq, i) ==
  IF i = 1 THEN Tail(seq) ELSE <<Head(seq)>> \o RemoveAt(Tail(seq), i - 1)

hlKnownTags == {<<"V", "N">>, <<"S", "O">>}

rgKnownTags ==
  { <<"I", "D">>, <<"C", "N">>, <<"D", "S">>, <<"D", "T">>, <<"F", "O">>, <<"K", "S">>,
    <<"L", "B">>, <<"P", "G">>, <<"P", "I">>, <<"P", "L">>, <<"P", "U">>, <<"S", "M">> }

programKnownTags == {<<"I", "D">>, <<"P", "N">>, <<"C", "L">>, <<"P", "P">>}

KnownTags(line) ==
  CASE lineTag(line) = <<"H", "D">> -> hlKnownTags
    [] lineTag(line) = <<"S", "Q">> -> rsdKnownTags
    [] lineTag(line) = <<"R", "G">> -> rgKnownTags
    [] lineTag(line) = <<"P", "G">> -> programKnownTags

\* Field i of the line (the tag field is field 1) reads KEY:VALUE with a
\* two-character key that the line's record type does not know.
UnknownKeyField(line, i) ==
  LET f == Split(line, "\t")[i]
  IN /\ Len(f) >= 3 /\ f[3] = ":" /\ f[1] /= ":" /\ f[2] /= ":"
     /\ SubSeq(f, 1, 2) \notin KnownTags(line)

UnknownKeyFields(line) ==
  {i \in 2..FieldCount(line) : UnknownKeyField(line, i)}

\* ------------------------------------------------------------ the claims

linesBefore == SubSeq(consumed, 1, Len(consumed) - 1)

\* The lines before the last one that carry the tag.
Earlier(tag) == {j \in 1..Len(linesBefore) : HasTag(linesBefore[j], tag)}

\* C1: whenever the scan aborts at a failing line, every collection that had
\* received a record from the lines before it is returned holding exactly
\* those records, in file order; it is never returned unset.
C1_AbortReturnsPopulated ==
  pc = "aborted" =>
    /\ rsdl /= <<>> => Returned.rsdl = Ptr(rsdl)
    /\ rgl /= <<>> => Returned.rgl = Ptr(rgl)
    /\ progl /= <<>> => Returned.progl = Ptr(progl)
    /\ al /= <<>> => Returned.al = Ptr(al)

\* C2: an @SQ line whose LN value is outside [1, 2^29 - 1] (zero, absent, not a
\* number, negative, 2^29 or more) makes the scan return a non-nil grammar
\* error, and its record is not appended to the RefSeqDict collection.
C2_LengthOutOfRangeRejected ==
  \A i \in 1..Len(consumed) :
    ( /\ StartsWithMarker(consumed[i]) /\ HasTag(consumed[i], <<"S", "Q">>)
      /\ ~InLengthRange(ValueOf(consumed[i], <<"L", "N">>)) )
    => /\ i = Len(consumed)
       /\ pc = "aborted"
       /\ Returned.err \in GrammarErrors
       /\ Len(rsdl) = Cardinality(Earlier(<<"S", "Q">>))

\* The name grammar [!-)+-<>-~][!-~]* for a whole name.
IsRefSeqName(t) ==
  /\ t /= <<>>
  /\ Ord(t[1]) \in NameStartClass
  /\ \A i \in 1..Len(t) : Ord(t[i]) \in GraphClass

\* The last line is grammatical for its type, by the format's grammar.
GrammarValid(line) ==
  CASE HasTag(line, <<"S", "Q">>) ->
         /\ IsRefSeqName(ValueOf(line, <<"S", "N">>))
         /\ InLengthRange(ValueOf(line, <<"L", "N">>))
    [] HasTag(line, <<"R", "G">>) ->
         /\ IsFlowOrder(ValueOf(line, <<"F", "O">>))
         /\ IsPlatform(ValueOf(line, <<"P", "L">>))
    [] HasTag(line, <<"P", "G">>) -> ValueOf(line, <<"I", "D">>) /= <<>>
    [] OTHER -> FALSE

\* The last line is a grammatical line of the tag whose identifier an earlier
\* line of the tag has recorded.
RepeatsIdentifier(tag, key) ==
  /\ consumed /= <<>>
  /\ pc \in {"scanning", "aborted", "completed"}
  /\ StartsWithMarker(lastLine) /\ HasTag(lastLine, tag)
  /\ GrammarValid(lastLine)
  /\ \E j \in Earlier(tag) : ValueOf(linesBefore[j], key) = ValueOf(lastLine, key)

\* C3: for @SQ by SN, @RG by ID and @PG by ID: a grammatical line whose
\* identifier an earlier line of the type recorded aborts the scan with the
\* duplicate-identifier error of the type; the returned collection of the type
\* holds the earlier records and not the later one, so never two records with
\* one identifier.
C3_DuplicateIdentifierRejected ==
  /\ RepeatsIdentifier(<<"S", "Q">>, <<"S", "N">>) =>
       /\ pc = "aborted"
       /\ Returned.err = SAMerror("Reference sequence name is not unique")
       /\ Returned.rsdl = Ptr(rsdl)
       /\ Len(rsdl) = Cardinality(Earlier(<<"S", "Q">>))
       /\ Distinct(rsdl, LAMBDA r : r.Name)
  /\ RepeatsIdentifier(<<"R", "G">>, <<"I", "D">>) =>
       /\ pc = "aborted"
       /\ Returned.err = SAMerror("Read group name is not unique")
       /\ Returned.rgl = Ptr(rgl)
       /\ Len(rgl) = Cardinality(Earlier(<<"R", "G">>))
       /\ Distinct(rgl, LAMBDA r : r.ID)
  /\ RepeatsIdentifier(<<"P", "G">>, <<"I", "D">>) =>
       /\ pc = "aborted"
       /\ Returned.err = SAMerror("Program ID is not unique")
       /\ Returned.progl = Ptr(progl)
       /\ Len(progl) = Cardinality(Earlier(<<"P", "G">>))
       /\ Distinct(progl, LAMBDA r : r.ID)

\* Lines that are well-formed for their type.
WellFormedLines ==
  { LineHD, LineHDunknown, LineSQa, LineSQbURI, LineRGg, LineRGgFO, LineRGhPL,
    LinePGp, LineCO, LineAlignment }

IdentifierKey(line) ==
  IF HasTag(line, <<"S", "Q">>) THEN <<"S", "N">> ELSE <<"I", "D">>

\* Every line read is well-formed, and no two @SQ, two @RG or two @PG lines
\* share an identifier.
WellFormedInput ==
  /\ \A i \in 1..Len(consumed) : consumed[i] \in WellFormedLines
  /\ \A i, j \in 1..Len(consumed) :
       ( /\ i /= j
         /\ lineTag(consumed[i]) \in {<<"S", "Q">>, <<"R", "G">>, <<"P", "G">>}
         /\ lineTag(consumed[i]) = lineTag(consumed[j]) )
       => ValueOf(consumed[i], IdentifierKey(consumed[i]))
            /= ValueOf(consumed[j], IdentifierKey(consumed[j]))

\* The lines read that are of the type, in file order.
CountOf(isOfType(_)) == Cardinality({i \in 1..Len(consumed) : isOfType(consumed[i])})

\* C4: on an input whose lines are all well-formed, with distinct identifiers,
\* the scan reads every line and returns no error, and each collection holds
\* one record for each line of its type.
C4_WellFormedInputAccepted ==
  WellFormedInput =>
    /\ pc \notin {"aborted", "panicked"}
    /\ pc = "completed" =>
         /\ Returned.err = NoError
         /\ Returned.rsdl = Ptr(rsdl) /\ Returned.rgl = Ptr(rgl)
         /\ Returned.progl = Ptr(progl) /\ Returned.al = Ptr(al)
         /\ Len(rsdl) = CountOf(LAMBDA l : HasTag(l, <<"S", "Q">>))
         /\ Len(rgl) = CountOf(LAMBDA l : HasTag(l, <<"R", "G">>))
         /\ Len(progl) = CountOf(LAMBDA l : HasTag(l, <<"P", "G">>))
         /\ Len(al) = CountOf(LAMBDA l : ~StartsWithMarker(l))

\* C5: an alignment line with fewer than 11 tab-separated fields makes the scan
\* return an error value, never a panic, and the records accumulated before the
\* line are returned.
C5_ShortAlignmentIsAnError ==
  ( /\ consumed /= <<>>
    /\ Len(lastLine) >= 3 /\ lineTag(lastLine) \notin MetaTags
    /\ FieldCount(lastLine) < 11 )
  => /\ pc = "aborted"
     /\ Returned.err /= NoError
     /\ Returned.rsdl = Ptr(rsdl) /\ Returned.rgl = Ptr(rgl)
     /\ Returned.progl = Ptr(progl) /\ Returned.al = Ptr(al)

\* C6: in each metadata parser a KEY:VALUE field whose two-character key the
\* record type does not know changes no attribute and raises no error: the
\* line parses and validates to the same record and validation as the line
\* without that field.
C6_UnknownKeyIgnored ==
  pc = "probed" =>
    \A i \in UnknownKeyFields(probe) :
      lineOutcome(JoinTab(RemoveAt(Split(probe, "\t"), i)), intSize) = result

\* C6 happens: a line with an unknown key among its fields was parsed into a
\* record with an attribute set, and the validator accepted the record.
C6_Witness ==
  /\ pc = "probed"
  /\ UnknownKeyFields(probe) /= {}
  /\ FieldCount(probe) >= 3
  /\ ~result[1].panic
  /\ result[1].validation = << Validation(TRUE, NoError) >>
  /\ HasTag(probe, <<"H", "D">>) /\ result[1].val.Version /= <<>>

\* C7: the header validator accepts a header exactly when its version is
\* digits, a '.', digits; any other version is rejected with the version error
\* and the scan aborts.
C7_VersionNeedsLiteralDot ==
  ( /\ consumed /= <<>>
    /\ pc /= "panicked"
    /\ StartsWithMarker(lastLine) /\ HasTag(lastLine, <<"H", "D">>) )
  => ( (pc = "aborted" /\ Returned.err = SAMerror("Invalid version in SAM Header"))
       <=> ~IsVersion(ValueOf(lastLine, <<"V", "N">>)) )

\* C8: the read group validator accepts a record exactly when its flowOrder is
\* empty, "*" or letters of ACMGRSVTWYHKDBN and its platform is empty or one of
\* the seven platform names.
C8_ReadGroupGrammar ==
  ( /\ consumed /= <<>>
    /\ pc /= "panicked"
    /\ StartsWithMarker(lastLine) /\ HasTag(lastLine, <<"R", "G">>) )
  => ( ( /\ pc = "aborted"
         /\ Returned.err \in { SAMerror("Invalid flow order in read group"),
                               SAMerror("Invalid platform in read group") } )
       <=> ~( /\ IsFlowOrder(ValueOf(lastLine, <<"F", "O">>))
              /\ IsPlatform(ValueOf(lastLine, <<"P", "L">>)) ) )

\* C9: every line, of any length, is classified as one of the six types; a line
\* is metadata only when it begins with '@' followed by HD, SQ, RG, PG or CO,
\* so a header comes only from a line beginning with @HD.
C9_ClassificationTotalAndMarked ==
  /\ (pc = "panicked" => Len(lastLine) >= 3)
  /\ (header /= NilPtr =>
        \E i \in 1..Len(consumed) :
          StartsWithMarker(consumed[i]) /\ HasTag(consumed[i], <<"H", "D">>))

\* C10: the value stored for a known key is the whole text between the first
\* colon of the field and the next tab or the end of the line, further colons
\* included.
C10_ValueIsTextAfterFirstColon ==
  (pc = "scanning" /\ consumed /= <<>>) =>
    /\ HasTag(lastLine, <<"H", "D">>) =>
         /\ header[1].Version = ValueOf(lastLine, <<"V", "N">>)
         /\ header[1].SortOrder = ValueOf(lastLine, <<"S", "O">>)
    /\ HasTag(lastLine, <<"S", "Q">>) =>
         /\ rsdl[Len(rsdl)].Name = ValueOf(lastLine, <<"S", "N">>)
         /\ rsdl[Len(rsdl)].AssemblyID = ValueOf(lastLine, <<"A", "S">>)
         /\ rsdl[Len(rsdl)].URI = ValueOf(lastLine, <<"U", "R">>)
    /\ HasTag(lastLine, <<"R", "G">>) =>
         /\ rgl[Len(rgl)].ID = ValueOf(lastLine, <<"I", "D">>)
         /\ rgl[Len(rgl)].Platform = ValueOf(lastLine, <<"P", "L">>)
    /\ HasTag(lastLine, <<"P", "G">>) =>
         /\ progl[Len(progl)].ID = ValueOf(lastLine, <<"I", "D">>)
         /\ progl[Len(progl)].Name = ValueOf(lastLine, <<"P", "N">>)

\* The fields after the tag field that hold no colon.
ColonlessFields(line) ==
  {i \in 2..FieldCount(line) : IndexOf(Split(line, "\t")[i], ":") = 0}

\* C11: in each metadata parser a field after the tag that holds no colon (a
\* bare VN, the empty field of a trailing tab) is ignored: the parser does not
\* panic, and the line parses and validates to the same record and validation as
\* the line without that field.
C11_ColonlessFieldIgnored ==
  pc = "probed" =>
    \A i \in ColonlessFields(probe) :
      /\ ~result[1].panic
      /\ lineOutcome(JoinTab(RemoveAt(Split(probe, "\t"), i)), intSize) = result

====
